---- MODULE Spec2Model ----
(***************************************************************************)
(* Model of jamisonbennett/networkstatus: the hardware signaler            *)
(* (src/hardware.py), the check orchestration (src/networkstatus.py) and   *)
(* the outer scheduling loop with its background LED refresh thread        *)
(* (src/network-status-main.py).                                           *)
(*                                                                         *)
(* Time is counted in ticks of 0.1 s (the poll / refresh cadence), so      *)
(* round(time * 10) is the tick count itself.  Python values True, False   *)
(* and None are the strings "True", "False" and "None".                    *)
(***************************************************************************)
EXTENDS Integers, Sequences, FiniteSets, TLC

\* ------------------------------------------------------------------ bounds
\* number of times the wall clock is allowed to advance in one behaviour
MaxTicks == 1
\* number of batches (rows) the scheduling loop is allowed to emit
MaxBatches == 2
\* longest verdict sequence handed to the fold
MaxLen == 4
\* largest number of children of a composite check
MaxChildren == 2
\* number of consecutive clock readings (0.1 s apart) the blink state is
\* computed at
BlinkWindow == 40
\* longest time (in ticks) the clock advances during one get_user_input call
MaxWait == 50
\* number of notifications an observer of its own receives
MaxCalls == 2

\* --------------------------------------------------------- python values
True == "True"
False == "False"
None == "None"
PyBool == {True, False}
Verdicts == {True, False, None}

\* Python truthiness of a verdict / boolean value
Truthy(v) == v = True
\* Python "not v"
PyNot(v) == IF Truthy(v) THEN False ELSE True
\* conversion of a TLA+ boolean to the Python value
ToPy(b) == IF b THEN True ELSE False

\* ------------------------------------------------------- time (in ticks)
TicksPerSecond == 10
hour == 60 * 60 * TicksPerSecond
day == 24 * hour
week == 7 * day
\* the wall clock at process start: any realistic epoch time is more than a
\* week after 0
StartTime == 2 * week
\* amounts by which the wall clock may be seen to advance while the main thread
\* waits: one poll interval, the hold threshold, the normal test interval
Jumps == {1, 30, 600}

\* hardware.py constants (0.1 s, 3 s, 1 s)
sleep_time == 1
button_push_time_for_extended_test == 3 * TicksPerSecond
min_test_running_led_time == 1 * TicksPerSecond
\* network-status-main.py constants (0.1 s, 1 s, 60 s, 60 * 60 s)
update_interval == 1
user_input_timeout == 1 * TicksPerSecond
normal_test_interval == 60 * TicksPerSecond
extended_test_interval == 60 * 60 * TicksPerSecond
\* user_input_time = None
NoTime == -1

\* ------------------------------------------------------------ enumerations
NORMAL_PASS == "NORMAL_PASS"
NORMAL_FAIL == "NORMAL_FAIL"
EXTENDED_PASS == "EXTENDED_PASS"
EXTENDED_FAIL == "EXTENDED_FAIL"
TEST_RUNNING == "TEST_RUNNING"
Leds == {NORMAL_PASS, NORMAL_FAIL, EXTENDED_PASS, EXTENDED_FAIL, TEST_RUNNING}

NO_INPUT == "NO_INPUT"
NORMAL_TEST == "NORMAL_TEST"
EXTENDED_TEST == "EXTENDED_TEST"
UserInput == {NO_INPUT, NORMAL_TEST, EXTENDED_TEST}

NORMAL == "NORMAL"
EXTENDED == "EXTENDED"
TestType == {NORMAL, EXTENDED}

Threads == {"main", "update"}

\* name of a field of TestState for a test type
ResultField(k) == IF k = NORMAL THEN "normal_test_result" ELSE "extended_test_result"
ScheduledField(k) == IF k = NORMAL THEN "scheduled_normal_test" ELSE "scheduled_extended_test"
FailureTimeField(k) ==
    IF k = NORMAL THEN "last_normal_test_failure_time" ELSE "last_extended_test_failure_time"
RunningField(k) == IF k = NORMAL THEN "normal_test_running" ELSE "extended_test_running"
StartedTimeField(k) ==
    IF k = NORMAL THEN "last_normal_test_started_time" ELSE "last_extended_test_started_time"
PassLed(k) == IF k = NORMAL THEN NORMAL_PASS ELSE EXTENDED_PASS
FailLed(k) == IF k = NORMAL THEN NORMAL_FAIL ELSE EXTENDED_FAIL
\* program position inside __update_leds for the outputs of one test type
Lbl(k, s) == (IF k = NORMAL THEN "normal" ELSE "extended") \o s

\* ------------------------------------------------------- pure functions
\* a fold that treats the verdicts as plain Python truth values (lhs and rhs)
combine_results_and(lhs, rhs) == IF Truthy(lhs) THEN rhs ELSE lhs

\* a combination in which only a left None gives way to the other operand
combine_results_left_none(lhs, rhs) ==
    IF lhs = None THEN rhs ELSE IF Truthy(lhs) THEN rhs ELSE lhs

\* combine_results(lhs, rhs)
combine_results(lhs, rhs) ==
    IF lhs = None THEN rhs
    ELSE IF rhs = None THEN lhs
    ELSE IF Truthy(lhs) THEN rhs ELSE lhs

\* functools.reduce(combine_results, results, None)
RECURSIVE reduce(_, _)
\* a reduction that keeps the last verdict only
reduce_last(results, acc) ==
    IF results = <<>> THEN acc ELSE results[Len(results)]

reduce(results, acc) ==
    IF results = <<>> THEN acc
    ELSE reduce(Tail(results), combine_results(acc, Head(results)))

\* Python round() of a time given in ticks to whole seconds (half to even)
Round(t) ==
    LET q == t \div TicksPerSecond
        r == t % TicksPerSecond
    IN  IF 2 * r < TicksPerSecond THEN q
        ELSE IF 2 * r > TicksPerSecond THEN q + 1
        ELSE IF q % 2 = 0 THEN q ELSE q + 1

\* the outputs of the three blinking regimes at current_time
FastToggle(current_time) == ToPy(current_time % 2 > 0)
SlowToggle(current_time) == ToPy(Round(current_time) % 2 > 0)
LongPause(current_time) == ToPy(current_time % 20 > 0)

\* __get_blink_state with strict comparisons
get_blink_state_strict(last_failure_time, current_time) ==
    IF last_failure_time + hour > current_time
        THEN ToPy(current_time % 2 > 0)
    ELSE IF last_failure_time + day > current_time
        THEN ToPy(Round(current_time) % 2 > 0)
    ELSE IF last_failure_time + week > current_time
        THEN ToPy(current_time % 20 > 0)
    ELSE True

\* Hardware.__get_blink_state, current_time being the time.time() it reads
get_blink_state(last_failure_time, current_time) ==
    IF last_failure_time + hour >= current_time
        THEN ToPy(current_time % 2 > 0)
    ELSE IF last_failure_time + day >= current_time
        THEN ToPy(Round(current_time) % 2 > 0)
    ELSE IF last_failure_time + week >= current_time
        THEN ToPy(current_time % 20 > 0)
    ELSE True

\* verdicts of MultipleChecks.check() for the composites built in main().
\* quick_checks = gateway ping, host ping, DNS (DnsCheck.do_to_value returns
\* nothing, i.e. None), printer ping and printer address (None).  The runs
\* drawn are: every probe passes, the gateway ping fails, the printer ping
\* fails.
NormalResults ==
    { <<g, True, None, pr, None>> : g \in PyBool, pr \in PyBool } \ {<<False, True, None, False, None>>}
\* extended_checks = SpeedCheck: download, upload, latency, server name (None).
\* The runs drawn are: all thresholds met, the upload threshold missed, the
\* speed test raised (-1,-1,-1,N/A).
ExtendedResults ==
    {<<True, True, True, None>>, <<True, False, True, None>>, <<False, False, False, None>>}

\* the scheduling tests of the outer loop
NormalDue(current_time, last_normal) == current_time >= last_normal + normal_test_interval
ExtendedDue(current_time, last_extended) ==
    current_time >= last_extended + extended_test_interval

\* a hold test that never succeeds
HoldNeverReached(current_time, pressed_at) == FALSE

\* the hold test of get_user_input
HoldReached(current_time, pressed_at) ==
    current_time >= pressed_at + button_push_time_for_extended_test

\* output lines
HEADER == "header"
EXTENDED_ROW == "extended_row"
NORMAL_ROW == "normal_row"
NumRows(o) == Cardinality({i \in 1..Len(o) : o[i] # HEADER})

\* log events of the operation in progress
Ev(e, k, r) == [ev |-> e, type |-> k, result |-> r]
\* the event of a completed __update_leds call of the main thread
REFRESH == Ev("refresh", "-", "-")

VARIABLES
    now,                \* time.time(), in ticks
    ticks,              \* how often the clock has advanced
    test_state,         \* Hardware.test_state
    test_state_lock,    \* holder of Hardware.test_state_lock, or "free"
    led_lock,           \* holder of Hardware.led_lock, or "free"
    leds,               \* the value last written to each LED pin
    pc,                 \* program position of each thread
    ret,                \* where __update_leds returns to, per thread
    ul,                 \* locals of __update_leds, per thread
    wake,               \* end of the time.sleep in progress, per thread
    last_normal_test,   \* main()
    last_extended_test, \* main()
    user_input,         \* value returned by get_user_input
    timeout_time,       \* get_user_input
    user_input_time,    \* get_user_input
    args,               \* arguments of the notification in progress
    normal_results,     \* verdicts held by normal_check / extended_check
    normal_tests_result,
    extended_tests_result,
    out,                \* lines printed to standard output
    log,                \* events of the batch / get_user_input call in progress
    poll,               \* the last poll of get_user_input: time and reading
    entry,              \* state at the entry of the get_user_input call
    snap,               \* the (result, scheduled) pairs the shared state has
                        \* held so far, and per thread whether its refresh has
                        \* combined a pair that was never held
    completed           \* test types whose completion has been notified

hwVars == <<test_state, test_state_lock, led_lock, leds>>
ulVars == <<ret, ul>>
guiVars == <<user_input, timeout_time, user_input_time, poll, entry>>
batchVars == <<args, normal_results, normal_tests_result, extended_tests_result>>
schedVars == <<last_normal_test, last_extended_test, out>>
clockVars == <<now, ticks>>
vars == <<now, ticks, test_state, test_state_lock, led_lock, leds, pc, ret, ul,
          wake, last_normal_test, last_extended_test, user_input, timeout_time,
          user_input_time, args, normal_results, normal_tests_result,
          extended_tests_result, out, log, poll, entry, snap, completed>>

\* TestState.__init__
TestStateInit ==
    [normal_test_result |-> True,
     extended_test_result |-> True,
     scheduled_normal_test |-> True,
     scheduled_extended_test |-> True,
     last_normal_test_failure_time |-> 0,
     last_extended_test_failure_time |-> 0,
     normal_test_running |-> False,
     extended_test_running |-> False,
     last_normal_test_started_time |-> 0,
     last_extended_test_started_time |-> 0]

UlInit == [current_time |-> 0, normal_blink_state |-> False,
           extended_blink_state |-> False, tmp |-> 0, val |-> False]
NoArgs == [test_type |-> "-", result |-> "-"]
NoPoll == [time |-> NoTime, pressed |-> False, seen |-> False]
\* the result and the scheduled flag of each test type, as state s holds them
Pairs(s) == {<<k, s[ResultField(k)], s[ScheduledField(k)]>> : k \in TestType}
SnapInit == [held |-> Pairs(TestStateInit), torn |-> [t \in Threads |-> FALSE]]
NoEntry == [test_state |-> TestStateInit, last_normal_test |-> 0, last_extended_test |-> 0]

\* the state after Hardware() has run its self-test and main() has started the
\* update thread and set last_normal_test = last_extended_test = 0
Init ==
    /\ now = StartTime
    /\ ticks = 0
    /\ test_state = TestStateInit
    /\ test_state_lock = "free"
    /\ led_lock = "free"
    /\ leds = [l \in Leds |-> False]
    /\ pc = [t \in Threads |-> IF t = "main" THEN "loop" ELSE "update"]
    /\ ret = [t \in Threads |-> "-"]
    /\ ul = [t \in Threads |-> UlInit]
    /\ wake = [t \in Threads |-> 0]
    /\ last_normal_test = 0
    /\ last_extended_test = 0
    /\ user_input = "-"
    /\ timeout_time = 0
    /\ user_input_time = NoTime
    /\ args = NoArgs
    /\ normal_results = <<>>
    /\ normal_tests_result = None
    /\ extended_tests_result = None
    /\ out = <<>>
    /\ log = <<>>
    /\ poll = NoPoll
    /\ entry = NoEntry
    /\ snap = SnapInit
    /\ completed = {}

\* positions at which the main thread waits for time to pass: time.sleep in
\* get_user_input and the evaluation of a composite check (subprocesses and
\* network probes); everything else the threads do takes no time on the scale
\* of a tick
Blocking == {"gui_sleeping", "nc_check", "extended_check", "ec_extended_check"}

\* the wall clock advances
Tick(d) ==
    /\ ticks < MaxTicks
    /\ pc["main"] \in Blocking
    /\ now' = now + d
    /\ ticks' = ticks + 1
    /\ UNCHANGED <<hwVars, pc, ulVars, wake, guiVars, batchVars, schedVars, log, snap, completed>>

Goto(t, l) == pc' = [pc EXCEPT ![t] = l]

\* thread t reads the scheduled flag of type k and combines it with a result
\* it read before, one of the values in rs: the read is torn when the shared
\* state has held no such pair at any instant
Combine(t, k, rs) ==
    snap' = [snap EXCEPT !.torn[t] =
                @ \/ \A r \in rs : <<k, r, test_state[ScheduledField(k)]>> \notin snap.held]

BlinkField(k) == IF k = NORMAL THEN "normal_blink_state" ELSE "extended_blink_state"
SetUl(t, f, v) == ul' = [ul EXCEPT ![t][f] = v]

\* ---------------------------------------------- Hardware.__update_leds
\* current_time = time.time()
UlBegin(t) ==
    /\ pc[t] = "ul_begin"
    /\ SetUl(t, "current_time", now)
    /\ Goto(t, "ul_acquire_state")
    /\ UNCHANGED <<clockVars, hwVars, ret, wake, guiVars, batchVars, schedVars, log, snap, completed>>

\* test_state_lock.acquire(); test_state = self.test_state binds the shared
\* object itself to the local name: no field is copied
UlAcquireState(t) ==
    /\ pc[t] = "ul_acquire_state"
    /\ test_state_lock = "free"
    /\ test_state_lock' = t
    /\ Goto(t, "ul_release_state")
    /\ UNCHANGED <<clockVars, test_state, led_lock, leds, ulVars, wake, guiVars,
                   batchVars, schedVars, log, snap, completed>>

\* leaving the read of the shared state without test_state_lock.release()
UlReleaseStateForgotten(t) ==
    /\ pc[t] = "ul_release_state"
    /\ Goto(t, Lbl(NORMAL, "_blink_read"))
    /\ UNCHANGED <<clockVars, hwVars, ulVars, wake, guiVars, batchVars, schedVars, log,
                   snap, completed>>

\* test_state_lock.release()
UlReleaseState(t) ==
    /\ pc[t] = "ul_release_state"
    /\ test_state_lock' = "free"
    /\ Goto(t, Lbl(NORMAL, "_blink_read"))
    /\ UNCHANGED <<clockVars, test_state, led_lock, leds, ulVars, wake, guiVars,
                   batchVars, schedVars, log, snap, completed>>

\* the argument test_state.last_<k>_test_failure_time is read
UlBlinkRead(t, k) ==
    /\ pc[t] = Lbl(k, "_blink_read")
    /\ SetUl(t, "tmp", test_state[FailureTimeField(k)])
    /\ Goto(t, Lbl(k, "_blink"))
    /\ UNCHANGED <<clockVars, hwVars, ret, wake, guiVars, batchVars, schedVars, log, snap, completed>>

\* <k>_blink_state = Hardware.__get_blink_state(...)
UlBlink(t, k) ==
    /\ pc[t] = Lbl(k, "_blink")
    /\ ul' = [ul EXCEPT ![t][BlinkField(k)] = get_blink_state(ul[t].tmp, now),
                        ![t].tmp = 0]
    /\ Goto(t, IF k = NORMAL THEN Lbl(EXTENDED, "_blink_read") ELSE "ul_acquire_led")
    /\ UNCHANGED <<clockVars, hwVars, ret, wake, guiVars, batchVars, schedVars, log, snap, completed>>

\* the positions of __update_leds between led_lock.acquire() and
\* led_lock.release(): the five GPIO.output calls and their operands
OutputSection ==
    {Lbl(k, l) : k \in TestType,
                 l \in {"_pass_result", "_pass_scheduled", "_pass_write",
                        "_fail_result", "_fail_scheduled", "_fail_write"}}
    \cup {"running_normal", "running_extended", "running_normal_started",
          "running_extended_started", "running_write", "ul_release_led"}

\* the positions of __update_leds
RefreshLabels ==
    {"ul_begin", "ul_acquire_state", "ul_release_state", "ul_acquire_led"}
    \cup {Lbl(k, l) : k \in TestType, l \in {"_blink_read", "_blink"}}
    \cup OutputSection

\* the positions of notify_test_completed before its __update_leds
CompletionLabels ==
    {"ntc_acquire", "ntc_result", "ntc_running", "ntc_scheduled", "ntc_failure_time",
     "ntc_release"}

\* the main thread is inside notify_test_completed(k, ...), its closing
\* __update_leds included
InCompletion(k) ==
    \/ pc["main"] \in CompletionLabels /\ args.test_type = k
    \/ /\ pc["main"] \in RefreshLabels
       /\ ret["main"] \in (IF k = NORMAL THEN {"print_normal_row", "ec_completed_extended"}
                                          ELSE {"print_extended_row"})

\* entering the output writes without waiting for led_lock
UlAcquireLedNoWait(t) ==
    /\ pc[t] = "ul_acquire_led"
    /\ led_lock' = t
    /\ Goto(t, Lbl(NORMAL, "_pass_result"))
    /\ UNCHANGED <<clockVars, test_state, test_state_lock, leds, ulVars, wake, guiVars,
                   batchVars, schedVars, log, snap, completed>>

\* led_lock.acquire()
UlAcquireLed(t) ==
    /\ pc[t] = "ul_acquire_led"
    /\ led_lock = "free"
    /\ led_lock' = t
    /\ Goto(t, Lbl(NORMAL, "_pass_result"))
    /\ UNCHANGED <<clockVars, test_state, test_state_lock, leds, ulVars, wake, guiVars,
                   batchVars, schedVars, log, snap, completed>>

\* <k>_blink_state and test_state.<k>_test_result and ...: the result is read
\* when the blink state is true
UlPassResult(t, k) ==
    /\ pc[t] = Lbl(k, "_pass_result")
    /\ LET v == IF Truthy(ul[t][BlinkField(k)]) THEN test_state[ResultField(k)]
                ELSE ul[t][BlinkField(k)]
       IN  /\ SetUl(t, "val", v)
           /\ Goto(t, IF Truthy(v) THEN Lbl(k, "_pass_scheduled") ELSE Lbl(k, "_pass_write"))
    /\ UNCHANGED <<clockVars, hwVars, ret, wake, guiVars, batchVars, schedVars, log, snap, completed>>

\* a Pass output that leaves the scheduled flag out of account
UlPassScheduledIgnored(t, k) ==
    /\ pc[t] = Lbl(k, "_pass_scheduled")
    /\ SetUl(t, "val", True)
    /\ Goto(t, Lbl(k, "_pass_write"))
    /\ UNCHANGED <<clockVars, hwVars, ret, wake, guiVars, batchVars, schedVars, log, snap, completed>>

\* ... and not test_state.scheduled_<k>_test
UlPassScheduled(t, k) ==
    /\ pc[t] = Lbl(k, "_pass_scheduled")
    /\ SetUl(t, "val", PyNot(test_state[ScheduledField(k)]))
    /\ Goto(t, Lbl(k, "_pass_write"))
    /\ Combine(t, k, {ul[t].val})
    /\ UNCHANGED <<clockVars, hwVars, ret, wake, guiVars, batchVars, schedVars, log, completed>>

\* GPIO.output(self.Leds.<K>_PASS.value, ...)
UlPassWrite(t, k) ==
    /\ pc[t] = Lbl(k, "_pass_write")
    /\ leds' = [leds EXCEPT ![PassLed(k)] = ul[t].val]
    /\ Goto(t, Lbl(k, "_fail_result"))
    /\ UNCHANGED <<clockVars, test_state, test_state_lock, led_lock, ulVars, wake,
                   guiVars, batchVars, schedVars, log, snap, completed>>

\* not test_state.<k>_test_result and ...
UlFailResult(t, k) ==
    /\ pc[t] = Lbl(k, "_fail_result")
    /\ LET v == PyNot(test_state[ResultField(k)])
       IN  /\ SetUl(t, "val", v)
           /\ Goto(t, IF Truthy(v) THEN Lbl(k, "_fail_scheduled") ELSE Lbl(k, "_fail_write"))
    /\ UNCHANGED <<clockVars, hwVars, ret, wake, guiVars, batchVars, schedVars, log, snap, completed>>

\* ... and not test_state.scheduled_<k>_test
UlFailScheduled(t, k) ==
    /\ pc[t] = Lbl(k, "_fail_scheduled")
    /\ SetUl(t, "val", PyNot(test_state[ScheduledField(k)]))
    /\ Goto(t, Lbl(k, "_fail_write"))
    /\ Combine(t, k, {r \in Verdicts : PyNot(r) = ul[t].val})
    /\ UNCHANGED <<clockVars, hwVars, ret, wake, guiVars, batchVars, schedVars, log, completed>>

\* a Fail LED that blinks like the Pass LED
UlFailWriteBlinking(t, k) ==
    /\ pc[t] = Lbl(k, "_fail_write")
    /\ leds' = [leds EXCEPT ![FailLed(k)] =
                    IF Truthy(ul[t].val) THEN ul[t][BlinkField(k)] ELSE False]
    /\ Goto(t, IF k = NORMAL THEN Lbl(EXTENDED, "_pass_result") ELSE "running_normal")
    /\ UNCHANGED <<clockVars, test_state, test_state_lock, led_lock, ulVars, wake,
                   guiVars, batchVars, schedVars, log, snap, completed>>

\* GPIO.output(self.Leds.<K>_FAIL.value, ...)
UlFailWrite(t, k) ==
    /\ pc[t] = Lbl(k, "_fail_write")
    /\ leds' = [leds EXCEPT ![FailLed(k)] = ul[t].val]
    /\ Goto(t, IF k = NORMAL THEN Lbl(EXTENDED, "_pass_result") ELSE "running_normal")
    /\ UNCHANGED <<clockVars, test_state, test_state_lock, led_lock, ulVars, wake,
                   guiVars, batchVars, schedVars, log, snap, completed>>

\* test_state.normal_test_running or ...
UlRunningNormal(t) ==
    /\ pc[t] = "running_normal"
    /\ SetUl(t, "val", test_state.normal_test_running)
    /\ Goto(t, IF Truthy(test_state.normal_test_running)
               THEN "running_write" ELSE "running_extended")
    /\ UNCHANGED <<clockVars, hwVars, ret, wake, guiVars, batchVars, schedVars, log, snap, completed>>

\* ... test_state.extended_test_running or ...
UlRunningExtended(t) ==
    /\ pc[t] = "running_extended"
    /\ SetUl(t, "val", test_state.extended_test_running)
    /\ Goto(t, IF Truthy(test_state.extended_test_running)
               THEN "running_write" ELSE "running_normal_started")
    /\ UNCHANGED <<clockVars, hwVars, ret, wake, guiVars, batchVars, schedVars, log, snap, completed>>

\* ... last_normal_test_started_time + min_test_running_led_time >= current_time or ...
UlRunningNormalStarted(t) ==
    /\ pc[t] = "running_normal_started"
    /\ LET v == ToPy(test_state.last_normal_test_started_time + min_test_running_led_time
                     >= ul[t].current_time)
       IN  /\ SetUl(t, "val", v)
           /\ Goto(t, IF Truthy(v) THEN "running_write" ELSE "running_extended_started")
    /\ UNCHANGED <<clockVars, hwVars, ret, wake, guiVars, batchVars, schedVars, log, snap, completed>>

\* ... last_extended_test_started_time + min_test_running_led_time >= current_time
UlRunningExtendedStarted(t) ==
    /\ pc[t] = "running_extended_started"
    /\ SetUl(t, "val", ToPy(test_state.last_extended_test_started_time
                            + min_test_running_led_time >= ul[t].current_time))
    /\ Goto(t, "running_write")
    /\ UNCHANGED <<clockVars, hwVars, ret, wake, guiVars, batchVars, schedVars, log, snap, completed>>

\* GPIO.output(self.Leds.TEST_RUNNING.value, ...)
UlRunningWrite(t) ==
    /\ pc[t] = "running_write"
    /\ leds' = [leds EXCEPT ![TEST_RUNNING] = ul[t].val]
    /\ Goto(t, "ul_release_led")
    /\ UNCHANGED <<clockVars, test_state, test_state_lock, led_lock, ulVars, wake,
                   guiVars, batchVars, schedVars, log, snap, completed>>

\* led_lock.release() and return to the caller
UlReleaseLed(t) ==
    /\ pc[t] = "ul_release_led"
    /\ led_lock' = "free"
    /\ Goto(t, ret[t])
    /\ ret' = [ret EXCEPT ![t] = "-"]
    /\ ul' = [ul EXCEPT ![t] = UlInit]
    /\ snap' = [snap EXCEPT !.torn[t] = FALSE]
    /\ log' = IF t = "main" THEN Append(log, REFRESH) ELSE log
    /\ UNCHANGED <<clockVars, test_state, test_state_lock, leds, wake, guiVars,
                   batchVars, schedVars, completed>>

update_leds(t) ==
    \/ UlBegin(t) \/ UlAcquireState(t) \/ UlReleaseState(t)
    \/ \E k \in TestType :
        \/ UlBlinkRead(t, k) \/ UlBlink(t, k)
        \/ UlPassResult(t, k) \/ UlPassScheduled(t, k) \/ UlPassWrite(t, k)
        \/ UlFailResult(t, k) \/ UlFailScheduled(t, k) \/ UlFailWrite(t, k)
    \/ UlAcquireLed(t)
    \/ UlRunningNormal(t) \/ UlRunningExtended(t) \/ UlRunningNormalStarted(t)
    \/ UlRunningExtendedStarted(t) \/ UlRunningWrite(t)
    \/ UlReleaseLed(t)

\* ------------------------------------------ the update thread (update())
\* hardware.update()
UpdateCall ==
    /\ pc["update"] = "update"
    /\ ret' = [ret EXCEPT !["update"] = "update_sleep"]
    /\ Goto("update", "ul_begin")
    /\ UNCHANGED <<clockVars, hwVars, ul, wake, guiVars, batchVars, schedVars, log, snap, completed>>

\* time.sleep(update_interval) begins
UpdateSleep ==
    /\ pc["update"] = "update_sleep"
    /\ wake' = [wake EXCEPT !["update"] = now + update_interval]
    /\ Goto("update", "update_sleeping")
    /\ UNCHANGED <<clockVars, hwVars, ulVars, guiVars, batchVars, schedVars, log, snap, completed>>

\* time.sleep(update_interval) returns once the interval has passed
UpdateWake ==
    /\ pc["update"] = "update_sleeping"
    /\ now >= wake["update"]
    /\ wake' = [wake EXCEPT !["update"] = 0]
    /\ Goto("update", "update")
    /\ UNCHANGED <<clockVars, hwVars, ulVars, guiVars, batchVars, schedVars, log, snap, completed>>

\* ------------------------- Hardware.notify_test_started (main thread)
\* an assignment to a field of the shared state, which from then on has held
\* the pairs of the new state
SetField(f, v) ==
    /\ test_state' = [test_state EXCEPT ![f] = v]
    /\ snap' = [snap EXCEPT !.held = @ \cup Pairs(test_state')]

\* test_state_lock.acquire()
NtsAcquire ==
    /\ pc["main"] = "nts_acquire"
    /\ test_state_lock = "free"
    /\ test_state_lock' = "main"
    /\ Goto("main", "nts_running")
    /\ UNCHANGED <<clockVars, test_state, led_lock, leds, ulVars, wake, guiVars,
                   batchVars, schedVars, log, snap, completed>>

\* self.test_state.<k>_test_running = True
NtsRunning ==
    /\ pc["main"] = "nts_running"
    /\ SetField(RunningField(args.test_type), True)
    /\ Goto("main", "nts_started_time")
    /\ UNCHANGED <<clockVars, test_state_lock, led_lock, leds, ulVars, wake, guiVars,
                   batchVars, schedVars, log, completed>>

\* self.test_state.last_<k>_test_started_time = time.time()
NtsStartedTime ==
    /\ pc["main"] = "nts_started_time"
    /\ SetField(StartedTimeField(args.test_type), now)
    /\ Goto("main", "nts_release")
    /\ UNCHANGED <<clockVars, test_state_lock, led_lock, leds, ulVars, wake, guiVars,
                   batchVars, schedVars, log, completed>>

\* test_state_lock.release(), then self.__update_leds()
NtsRelease ==
    /\ pc["main"] = "nts_release"
    /\ test_state_lock' = "free"
    /\ args' = NoArgs
    /\ Goto("main", "ul_begin")
    /\ UNCHANGED <<clockVars, test_state, led_lock, leds, ulVars, wake, guiVars,
                   normal_results, normal_tests_result, extended_tests_result,
                   schedVars, log, snap, completed>>

notify_test_started == NtsAcquire \/ NtsRunning \/ NtsStartedTime \/ NtsRelease

\* ----------------------- Hardware.notify_test_completed (main thread)
\* test_state_lock.acquire()
NtcAcquire ==
    /\ pc["main"] = "ntc_acquire"
    /\ test_state_lock = "free"
    /\ test_state_lock' = "main"
    /\ Goto("main", "ntc_result")
    /\ UNCHANGED <<clockVars, test_state, led_lock, leds, ulVars, wake, guiVars,
                   batchVars, schedVars, log, snap, completed>>

\* self.test_state.<k>_test_result = result
NtcResult ==
    /\ pc["main"] = "ntc_result"
    /\ SetField(ResultField(args.test_type), args.result)
    /\ Goto("main", "ntc_running")
    /\ UNCHANGED <<clockVars, test_state_lock, led_lock, leds, ulVars, wake, guiVars,
                   batchVars, schedVars, log, completed>>

\* self.test_state.<k>_test_running = False
NtcRunning ==
    /\ pc["main"] = "ntc_running"
    /\ SetField(RunningField(args.test_type), False)
    /\ Goto("main", "ntc_scheduled")
    /\ UNCHANGED <<clockVars, test_state_lock, led_lock, leds, ulVars, wake, guiVars,
                   batchVars, schedVars, log, completed>>

\* self.test_state.scheduled_<k>_test = False; if not result: ...
NtcScheduled ==
    /\ pc["main"] = "ntc_scheduled"
    /\ SetField(ScheduledField(args.test_type), False)
    /\ Goto("main", IF Truthy(PyNot(args.result)) THEN "ntc_failure_time" ELSE "ntc_release")
    /\ UNCHANGED <<clockVars, test_state_lock, led_lock, leds, ulVars, wake, guiVars,
                   batchVars, schedVars, log, completed>>

\* self.test_state.last_<k>_test_failure_time = time.time()
NtcFailureTime ==
    /\ pc["main"] = "ntc_failure_time"
    /\ SetField(FailureTimeField(args.test_type), now)
    /\ Goto("main", "ntc_release")
    /\ UNCHANGED <<clockVars, test_state_lock, led_lock, leds, ulVars, wake, guiVars,
                   batchVars, schedVars, log, completed>>

\* test_state_lock.release(), then self.__update_leds()
NtcRelease ==
    /\ pc["main"] = "ntc_release"
    /\ test_state_lock' = "free"
    /\ args' = NoArgs
    /\ Goto("main", "ul_begin")
    /\ UNCHANGED <<clockVars, test_state, led_lock, leds, ulVars, wake, guiVars,
                   normal_results, normal_tests_result, extended_tests_result,
                   schedVars, log, snap, completed>>

notify_test_completed ==
    NtcAcquire \/ NtcResult \/ NtcRunning \/ NtcScheduled \/ NtcFailureTime \/ NtcRelease

\* the call observer.notify_test_started(k), returning to position l
CallStarted(k, l) ==
    /\ args' = [test_type |-> k, result |-> "-"]
    /\ ret' = [ret EXCEPT !["main"] = l]
    /\ log' = Append(log, Ev("started", k, "-"))
    /\ Goto("main", "nts_acquire")

\* the call observer.notify_test_completed(k, r), returning to position l
CallCompleted(k, r, l) ==
    /\ args' = [test_type |-> k, result |-> r]
    /\ ret' = [ret EXCEPT !["main"] = l]
    /\ log' = Append(log, Ev("completed", k, r))
    /\ completed' = completed \cup {k}
    /\ Goto("main", "ntc_acquire")

\* ------------------------------ NormalAndExtendedChecks.normal_check
\* for observer in self.test_observers: observer.notify_test_started(NORMAL)
NcStarted ==
    /\ pc["main"] = "normal_check"
    /\ CallStarted(NORMAL, "nc_check")
    /\ UNCHANGED <<clockVars, hwVars, ul, wake, guiVars, normal_results,
                   normal_tests_result, extended_tests_result, schedVars, snap, completed>>

\* results = self.normal_checks.check(); normal_tests_result = reduce(...)
NcCheck ==
    /\ pc["main"] = "nc_check"
    /\ \E results \in NormalResults :
        /\ normal_tests_result' = reduce(results, None)
        /\ log' = Append(log, Ev("check", NORMAL, results))
    /\ Goto("main", "nc_completed")
    /\ UNCHANGED <<clockVars, hwVars, ulVars, wake, guiVars, args, normal_results,
                   extended_tests_result, schedVars, snap, completed>>

\* for observer in self.test_observers: observer.notify_test_completed(NORMAL, ...)
NcCompleted ==
    /\ pc["main"] = "nc_completed"
    /\ CallCompleted(NORMAL, normal_tests_result, "print_normal_row")
    /\ UNCHANGED <<clockVars, hwVars, ul, wake, guiVars, normal_results,
                   normal_tests_result, extended_tests_result, schedVars, snap>>

normal_check == NcStarted \/ NcCheck \/ NcCompleted

\* ---------------------------- NormalAndExtendedChecks.extended_check
\* normal_results = self.normal_checks.check()
EcNormalCheck ==
    /\ pc["main"] = "extended_check"
    /\ normal_results' \in NormalResults
    /\ log' = Append(log, Ev("check", NORMAL, normal_results'))
    /\ Goto("main", "ec_started_normal")
    /\ UNCHANGED <<clockVars, hwVars, ulVars, wake, guiVars, args, normal_tests_result,
                   extended_tests_result, schedVars, snap, completed>>

\* observer.notify_test_started(NORMAL)
EcStartedNormal ==
    /\ pc["main"] = "ec_started_normal"
    /\ CallStarted(NORMAL, "ec_started_extended")
    /\ UNCHANGED <<clockVars, hwVars, ul, wake, guiVars, normal_results,
                   normal_tests_result, extended_tests_result, schedVars, snap, completed>>

\* observer.notify_test_started(EXTENDED)
EcStartedExtended ==
    /\ pc["main"] = "ec_started_extended"
    /\ CallStarted(EXTENDED, "ec_extended_check")
    /\ UNCHANGED <<clockVars, hwVars, ul, wake, guiVars, normal_results,
                   normal_tests_result, extended_tests_result, schedVars, snap, completed>>

\* normal_tests_result = reduce(...); extended_results = self.extended_checks.check();
\* extended_tests_result = reduce(...)
EcExtendedCheck ==
    /\ pc["main"] = "ec_extended_check"
    /\ normal_tests_result' = reduce(normal_results, None)
    /\ normal_results' = <<>>
    /\ \E extended_results \in ExtendedResults :
        /\ extended_tests_result' = reduce(extended_results, None)
        /\ log' = Append(log, Ev("check", EXTENDED, extended_results))
    /\ Goto("main", "ec_completed_normal")
    /\ UNCHANGED <<clockVars, hwVars, ulVars, wake, guiVars, args, schedVars, snap, completed>>

\* a completion of the Normal kind that is handed the Extended verdict
EcCompletedNormalSwapped ==
    /\ pc["main"] = "ec_completed_normal"
    /\ CallCompleted(NORMAL, extended_tests_result, "ec_completed_extended")
    /\ UNCHANGED <<clockVars, hwVars, ul, wake, guiVars, normal_results,
                   normal_tests_result, extended_tests_result, schedVars, snap>>

\* observer.notify_test_completed(NORMAL, normal_tests_result)
EcCompletedNormal ==
    /\ pc["main"] = "ec_completed_normal"
    /\ CallCompleted(NORMAL, normal_tests_result, "ec_completed_extended")
    /\ UNCHANGED <<clockVars, hwVars, ul, wake, guiVars, normal_results,
                   normal_tests_result, extended_tests_result, schedVars, snap>>

\* observer.notify_test_completed(EXTENDED, extended_tests_result)
EcCompletedExtended ==
    /\ pc["main"] = "ec_completed_extended"
    /\ CallCompleted(EXTENDED, extended_tests_result, "print_extended_row")
    /\ UNCHANGED <<clockVars, hwVars, ul, wake, guiVars, normal_results,
                   normal_tests_result, extended_tests_result, schedVars, snap>>

extended_check ==
    \/ EcNormalCheck \/ EcStartedNormal \/ EcStartedExtended \/ EcExtendedCheck
    \/ EcCompletedNormal \/ EcCompletedExtended

\* ------------------------------------------ Hardware.get_user_input
\* a chain that tests the timeout without asking whether a press was observed
PollBranchTimeoutAnyway(pressed_at, pressed, current_time, deadline) ==
    IF pressed_at = NoTime /\ pressed THEN "press"
    ELSE IF pressed_at # NoTime /\ ~pressed THEN NORMAL_TEST
    ELSE IF pressed_at # NoTime /\ HoldReached(current_time, pressed_at) THEN EXTENDED_TEST
    ELSE IF current_time >= deadline THEN NO_INPUT
    ELSE "sleep"

\* the if / elif chain of one pass through the polling loop, for the button
\* reading `pressed` and the clock reading current_time
PollBranch(pressed_at, pressed, current_time, deadline) ==
    IF pressed_at = NoTime /\ pressed THEN "press"
    ELSE IF pressed_at # NoTime /\ ~pressed THEN NORMAL_TEST
    ELSE IF pressed_at # NoTime /\ HoldReached(current_time, pressed_at) THEN EXTENDED_TEST
    ELSE IF pressed_at = NoTime /\ current_time >= deadline THEN NO_INPUT
    ELSE "sleep"

Polled(pressed) == poll' = [time |-> now, pressed |-> ToPy(pressed),
                            seen |-> IF pressed THEN True ELSE poll.seen]

\* timeout_time = time.time() + timeout; user_input_time = None
GuiStart ==
    /\ pc["main"] = "get_user_input"
    /\ timeout_time' = now + user_input_timeout
    /\ user_input_time' = NoTime
    /\ user_input' = "-"
    /\ poll' = NoPoll
    /\ entry' = [test_state |-> test_state, last_normal_test |-> last_normal_test,
                 last_extended_test |-> last_extended_test]
    /\ log' = <<>>
    /\ Goto("main", "gui_poll")
    /\ UNCHANGED <<clockVars, hwVars, ulVars, wake, batchVars, schedVars, snap, completed>>

\* initial button push: user_input_time = time.time()
GuiPress ==
    /\ pc["main"] = "gui_poll"
    /\ \E pressed \in BOOLEAN :
        /\ PollBranch(user_input_time, pressed, now, timeout_time) = "press"
        /\ Polled(pressed)
    /\ user_input_time' = now
    /\ Goto("main", "gui_press_acquire")
    /\ UNCHANGED <<clockVars, hwVars, ulVars, wake, user_input, timeout_time, entry,
                   batchVars, schedVars, log, snap, completed>>

\* test_state_lock.acquire()
GuiPressAcquire ==
    /\ pc["main"] = "gui_press_acquire"
    /\ test_state_lock = "free"
    /\ test_state_lock' = "main"
    /\ Goto("main", "gui_press_set")
    /\ UNCHANGED <<clockVars, test_state, led_lock, leds, ulVars, wake, guiVars,
                   batchVars, schedVars, log, snap, completed>>

\* an initial button push that leaves the scheduled flag as it is
GuiPressSetForgotten ==
    /\ pc["main"] = "gui_press_set"
    /\ SetField(ScheduledField(NORMAL), test_state.scheduled_normal_test)
    /\ log' = Append(log, Ev("scheduled", NORMAL, "-"))
    /\ Goto("main", "gui_press_release")
    /\ UNCHANGED <<clockVars, test_state_lock, led_lock, leds, ulVars, wake, guiVars,
                   batchVars, schedVars, completed>>

\* self.test_state.scheduled_normal_test = True
GuiPressSet ==
    /\ pc["main"] = "gui_press_set"
    /\ SetField(ScheduledField(NORMAL), True)
    /\ log' = Append(log, Ev("scheduled", NORMAL, "-"))
    /\ Goto("main", "gui_press_release")
    /\ UNCHANGED <<clockVars, test_state_lock, led_lock, leds, ulVars, wake, guiVars,
                   batchVars, schedVars, completed>>

\* test_state_lock.release(); self.__update_leds(); back to the loop
GuiPressRelease ==
    /\ pc["main"] = "gui_press_release"
    /\ test_state_lock' = "free"
    /\ ret' = [ret EXCEPT !["main"] = "gui_poll"]
    /\ Goto("main", "ul_begin")
    /\ UNCHANGED <<clockVars, test_state, led_lock, leds, ul, wake, guiVars,
                   batchVars, schedVars, log, snap, completed>>

\* the button was pushed and is now released: return NORMAL_TEST
GuiReleased ==
    /\ pc["main"] = "gui_poll"
    /\ \E pressed \in BOOLEAN :
        /\ PollBranch(user_input_time, pressed, now, timeout_time) = NORMAL_TEST
        /\ Polled(pressed)
    /\ user_input' = NORMAL_TEST
    /\ Goto("main", "gui_return")
    /\ UNCHANGED <<clockVars, hwVars, ulVars, wake, timeout_time, user_input_time,
                   entry, batchVars, schedVars, log, snap, completed>>

\* the button was held for the extended test time
GuiHeld ==
    /\ pc["main"] = "gui_poll"
    /\ \E pressed \in BOOLEAN :
        /\ PollBranch(user_input_time, pressed, now, timeout_time) = EXTENDED_TEST
        /\ Polled(pressed)
    /\ Goto("main", "gui_hold_acquire")
    /\ UNCHANGED <<clockVars, hwVars, ulVars, wake, user_input, timeout_time,
                   user_input_time, entry, batchVars, schedVars, log, snap, completed>>

\* test_state_lock.acquire()
GuiHoldAcquire ==
    /\ pc["main"] = "gui_hold_acquire"
    /\ test_state_lock = "free"
    /\ test_state_lock' = "main"
    /\ Goto("main", "gui_hold_set")
    /\ UNCHANGED <<clockVars, test_state, led_lock, leds, ulVars, wake, guiVars,
                   batchVars, schedVars, log, snap, completed>>

\* self.test_state.scheduled_extended_test = True
GuiHoldSet ==
    /\ pc["main"] = "gui_hold_set"
    /\ SetField(ScheduledField(EXTENDED), True)
    /\ log' = Append(log, Ev("scheduled", EXTENDED, "-"))
    /\ Goto("main", "gui_hold_release")
    /\ UNCHANGED <<clockVars, test_state_lock, led_lock, leds, ulVars, wake, guiVars,
                   batchVars, schedVars, completed>>

\* test_state_lock.release(); self.__update_leds()
GuiHoldRelease ==
    /\ pc["main"] = "gui_hold_release"
    /\ test_state_lock' = "free"
    /\ ret' = [ret EXCEPT !["main"] = "gui_hold_return"]
    /\ Goto("main", "ul_begin")
    /\ UNCHANGED <<clockVars, test_state, led_lock, leds, ul, wake, guiVars,
                   batchVars, schedVars, log, snap, completed>>

\* return self.UserInput.EXTENDED_TEST
GuiHoldReturn ==
    /\ pc["main"] = "gui_hold_return"
    /\ user_input' = EXTENDED_TEST
    /\ Goto("main", "gui_return")
    /\ UNCHANGED <<clockVars, hwVars, ulVars, wake, timeout_time, user_input_time,
                   poll, entry, batchVars, schedVars, log, snap, completed>>

\* the button was not pushed and the timeout has happened: return NO_INPUT
GuiTimeout ==
    /\ pc["main"] = "gui_poll"
    /\ \E pressed \in BOOLEAN :
        /\ PollBranch(user_input_time, pressed, now, timeout_time) = NO_INPUT
        /\ Polled(pressed)
    /\ user_input' = NO_INPUT
    /\ Goto("main", "gui_return")
    /\ UNCHANGED <<clockVars, hwVars, ulVars, wake, timeout_time, user_input_time,
                   entry, batchVars, schedVars, log, snap, completed>>

\* time.sleep(sleep_time) begins
GuiSleep ==
    /\ pc["main"] = "gui_poll"
    /\ \E pressed \in BOOLEAN :
        /\ PollBranch(user_input_time, pressed, now, timeout_time) = "sleep"
        /\ Polled(pressed)
    /\ wake' = [wake EXCEPT !["main"] = now + sleep_time]
    /\ Goto("main", "gui_sleeping")
    /\ UNCHANGED <<clockVars, hwVars, ulVars, user_input, timeout_time, user_input_time,
                   entry, batchVars, schedVars, log, snap, completed>>

\* time.sleep(sleep_time) returns once the interval has passed
GuiWake ==
    /\ pc["main"] = "gui_sleeping"
    /\ now >= wake["main"]
    /\ wake' = [wake EXCEPT !["main"] = 0]
    /\ Goto("main", "gui_poll")
    /\ UNCHANGED <<clockVars, hwVars, ulVars, guiVars, batchVars, schedVars, log, snap, completed>>

get_user_input ==
    \/ GuiStart \/ GuiPress \/ GuiPressAcquire \/ GuiPressSet \/ GuiPressRelease
    \/ GuiReleased \/ GuiHeld \/ GuiHoldAcquire \/ GuiHoldSet \/ GuiHoldRelease
    \/ GuiHoldReturn \/ GuiTimeout \/ GuiSleep \/ GuiWake

\* -------------------------------------------------- main(): the outer loop
\* a cycle that gives the normal test precedence
CycleBranchNormalFirst(current_time, last_normal, last_extended) ==
    IF NormalDue(current_time, last_normal) THEN NORMAL
    ELSE IF ExtendedDue(current_time, last_extended) THEN EXTENDED
    ELSE "none"

\* which batch one cycle runs at clock reading current_time
CycleBranch(current_time, last_normal, last_extended) ==
    IF NormalDue(current_time, last_normal) \/ ExtendedDue(current_time, last_extended)
    THEN IF ExtendedDue(current_time, last_extended) THEN EXTENDED ELSE NORMAL
    ELSE "none"

\* an extended branch that prints the header for the first batch only
CycleExtendedHeaderOnce ==
    /\ pc["main"] = "loop"
    /\ NumRows(out) < MaxBatches
    /\ CycleBranch(now, last_normal_test, last_extended_test) = EXTENDED
    /\ last_normal_test' = now
    /\ out' = IF \E i \in 1..Len(out) : out[i] = HEADER THEN out ELSE Append(out, HEADER)
    /\ last_extended_test' = now
    /\ log' = <<>>
    /\ entry' = NoEntry
    /\ Goto("main", "extended_check")
    /\ UNCHANGED <<clockVars, hwVars, ulVars, wake, user_input, timeout_time,
                   user_input_time, poll, batchVars, snap, completed>>

\* the extended test is due: print the header, run checks.extended_check()
CycleExtended ==
    /\ pc["main"] = "loop"
    /\ NumRows(out) < MaxBatches
    /\ CycleBranch(now, last_normal_test, last_extended_test) = EXTENDED
    /\ last_normal_test' = now
    /\ out' = Append(out, HEADER)
    /\ last_extended_test' = now
    /\ log' = <<>>
    /\ entry' = NoEntry
    /\ Goto("main", "extended_check")
    /\ UNCHANGED <<clockVars, hwVars, ulVars, wake, user_input, timeout_time,
                   user_input_time, poll, batchVars, snap, completed>>

\* only the normal test is due: run checks.normal_check()
CycleNormal ==
    /\ pc["main"] = "loop"
    /\ NumRows(out) < MaxBatches
    /\ CycleBranch(now, last_normal_test, last_extended_test) = NORMAL
    /\ last_normal_test' = now
    /\ log' = <<>>
    /\ entry' = NoEntry
    /\ Goto("main", "normal_check")
    /\ UNCHANGED <<clockVars, hwVars, ulVars, wake, user_input, timeout_time,
                   user_input_time, poll, batchVars, last_extended_test, out, snap, completed>>

\* nothing is due
CycleIdle ==
    /\ pc["main"] = "loop"
    /\ CycleBranch(now, last_normal_test, last_extended_test) = "none"
    /\ log' = <<>>
    /\ entry' = NoEntry
    /\ Goto("main", "get_user_input")
    /\ UNCHANGED <<clockVars, hwVars, ulVars, wake, user_input, timeout_time,
                   user_input_time, poll, batchVars, schedVars, snap, completed>>

\* print('{},{}'.format(time_str, result_str)) after extended_check
PrintExtendedRow ==
    /\ pc["main"] = "print_extended_row"
    /\ out' = Append(out, EXTENDED_ROW)
    /\ normal_tests_result' = None
    /\ extended_tests_result' = None
    /\ Goto("main", "get_user_input")
    /\ UNCHANGED <<clockVars, hwVars, ulVars, wake, guiVars, args, normal_results,
                   last_normal_test, last_extended_test, log, snap, completed>>

\* print('{},{}'.format(time_str, result_str)) after normal_check
PrintNormalRow ==
    /\ pc["main"] = "print_normal_row"
    /\ out' = Append(out, NORMAL_ROW)
    /\ normal_tests_result' = None
    /\ Goto("main", "get_user_input")
    /\ UNCHANGED <<clockVars, hwVars, ulVars, wake, guiVars, args, normal_results,
                   extended_tests_result, last_normal_test, last_extended_test, log, snap, completed>>

\* a handler in which EXTENDED_TEST resets last_normal_test only
HandleInputNormalOnly ==
    /\ pc["main"] = "gui_return"
    /\ last_normal_test' = IF user_input \in {NORMAL_TEST, EXTENDED_TEST}
                           THEN 0 ELSE last_normal_test
    /\ last_extended_test' = last_extended_test
    /\ log' = <<>>
    /\ poll' = NoPoll
    /\ timeout_time' = 0
    /\ user_input_time' = NoTime
    /\ Goto("main", "loop")
    /\ UNCHANGED <<clockVars, hwVars, ulVars, wake, user_input, entry, batchVars, out, snap, completed>>

\* a main() that drops the value get_user_input returned
HandleInputDropped ==
    /\ pc["main"] = "gui_return"
    /\ log' = <<>>
    /\ poll' = NoPoll
    /\ timeout_time' = 0
    /\ user_input_time' = NoTime
    /\ Goto("main", "loop")
    /\ UNCHANGED <<clockVars, hwVars, ulVars, wake, user_input, entry, batchVars,
                   schedVars, snap, completed>>

\* what main() does with the value get_user_input returned
HandleInput ==
    /\ pc["main"] = "gui_return"
    /\ last_normal_test' = IF user_input \in {NORMAL_TEST, EXTENDED_TEST}
                           THEN 0 ELSE last_normal_test
    /\ last_extended_test' = IF user_input = EXTENDED_TEST THEN 0 ELSE last_extended_test
    /\ log' = <<>>
    /\ poll' = NoPoll
    /\ timeout_time' = 0
    /\ user_input_time' = NoTime
    /\ Goto("main", "loop")
    /\ UNCHANGED <<clockVars, hwVars, ulVars, wake, user_input, entry, batchVars, out, snap, completed>>

main ==
    \/ CycleExtended \/ CycleNormal \/ CycleIdle
    \/ PrintExtendedRow \/ PrintNormalRow \/ HandleInput

update == UpdateCall \/ UpdateSleep \/ UpdateWake

Next ==
    \/ \E d \in Jumps : Tick(d)
    \/ main
    \/ normal_check
    \/ extended_check
    \/ notify_test_started
    \/ notify_test_completed
    \/ get_user_input
    \/ update
    \/ \E t \in Threads : update_leds(t)

Spec == Init /\ [][Next]_vars

\* the positions between test_state_lock.acquire() and test_state_lock.release()
StateSection ==
    {"ul_release_state", "nts_running", "nts_started_time", "nts_release",
     "ntc_result", "ntc_running", "ntc_scheduled", "ntc_failure_time", "ntc_release",
     "gui_press_set", "gui_press_release", "gui_hold_set", "gui_hold_release"}

\* the positions at which a thread waits for a lock
AcquireLabels ==
    {"ul_acquire_state", "ul_acquire_led", "nts_acquire", "ntc_acquire",
     "gui_press_acquire", "gui_hold_acquire"}

\* the positions at which a thread sleeps or a composite check runs
WaitingLabels == Blocking \cup {"update_sleeping"}

\* where the main thread is in main(), normal_check, extended_check and
\* get_user_input: inside a notification or a refresh, the position the call
\* returns to
MainPosition ==
    IF pc["main"] \in RefreshLabels \cup CompletionLabels
                      \cup {"nts_acquire", "nts_running", "nts_started_time", "nts_release"}
    THEN ret["main"] ELSE pc["main"]

\* a completion notification for test type k lies ahead of the main thread:
\* the cycle at hand runs a batch of k, the batch at hand has not yet completed
\* k, or get_user_input is about to return a value that makes the next cycle
\* run a batch of k
CompletionAhead(k) ==
    \/ /\ pc["main"] \in {"ntc_acquire", "ntc_result", "ntc_running", "ntc_scheduled"}
       /\ args.test_type = k
    \/ /\ MainPosition = "loop"
       /\ \/ ExtendedDue(now, last_extended_test)
          \/ k = NORMAL /\ NormalDue(now, last_normal_test)
    \/ MainPosition \in {"normal_check", "nc_check", "nc_completed"} /\ k = NORMAL
    \/ MainPosition \in {"extended_check", "ec_started_normal", "ec_started_extended",
                         "ec_extended_check", "ec_completed_normal"}
    \/ MainPosition = "ec_completed_extended" /\ k = EXTENDED
    \/ /\ MainPosition \in {"gui_poll", "gui_sleeping", "gui_press_acquire",
                            "gui_press_set", "gui_press_release"}
       /\ k = NORMAL
       /\ user_input_time # NoTime
    \/ MainPosition \in {"gui_hold_acquire", "gui_hold_set", "gui_hold_release",
                         "gui_hold_return"}
    \/ /\ MainPosition = "gui_return"
       /\ user_input \in (IF k = NORMAL THEN {NORMAL_TEST, EXTENDED_TEST}
                                        ELSE {EXTENDED_TEST})

\* the steps of each thread
MainThread ==
    \/ main \/ normal_check \/ extended_check \/ notify_test_started
    \/ notify_test_completed \/ get_user_input \/ update_leds("main")
UpdateThread == update \/ update_leds("update")

\* =========================================== the functions on their own
\* Each function of the program is applied to arguments drawn from a
\* bounded set; log holds the one application made: its name, its arguments
\* and what it returned.
progVars == <<now, ticks, test_state, test_state_lock, led_lock, leds, pc, ret, ul,
              wake, last_normal_test, last_extended_test, user_input, timeout_time,
              user_input_time, args, normal_results, normal_tests_result,
              extended_tests_result, out, poll, entry, snap, completed>>

\* the verdict sequences a composite check may return
VerdictSeqs == UNION {[1..n -> Verdicts] : n \in 0..MaxLen}

\* combine_results(a, b)
ApplyCombineResults ==
    /\ log = <<>>
    /\ \E a \in Verdicts, b \in Verdicts :
        log' = <<Ev("combine_results", <<a, b>>, combine_results(a, b))>>
    /\ UNCHANGED progVars

\* functools.reduce(combine_results, results, None)
ApplyReduce ==
    /\ log = <<>>
    /\ \E results \in VerdictSeqs :
        log' = <<Ev("reduce", results, reduce(results, None))>>
    /\ UNCHANGED progVars

\* ------------------------------------------- strings and the check classes
\* A string is the sequence of its pieces: a piece is a comma or a run of
\* characters without a comma ("-1", "20.0", "True", ...).
COMMA == ","

\* ','.join(strs)
RECURSIVE Join(_)
Join(strs) ==
    IF strs = <<>> THEN <<>>
    ELSE IF Len(strs) = 1 THEN strs[1]
    ELSE strs[1] \o <<COMMA>> \o Join(Tail(strs))

\* len(s.split(','))
Fields(s) == 1 + Cardinality({i \in 1..Len(s) : s[i] = COMMA})

\* s.split(',')[0]
FirstField(s) == IF s = <<>> \/ s[1] = COMMA THEN "" ELSE s[1]

\* [element for inner_array in result_arrays for element in inner_array]
RECURSIVE Flatten(_)
Flatten(arrays) == IF arrays = <<>> THEN <<>> ELSE arrays[1] \o Flatten(Tail(arrays))

\* PingCheckBase.NO_PING and the max_ping main() passes (ms)
NO_PING == "-1"
max_ping == 200
\* float(value_string) of the ping times the probes are given here
Float(value_string) == IF value_string = "20.0" THEN 20 ELSE 250

\* PingCheckBase.do_to_value
do_to_value(value_string) ==
    IF value_string = NO_PING THEN False
    ELSE ToPy(Float(value_string) <= max_ping)

\* DnsCheck.do_to_value: bool(value_string) is computed and dropped, the
\* method returns nothing
DnsCheck_do_to_value(value_string) == None

\* A check is a record: its class (kind), for a leaf the outcome of its probe
\* ("ok", "slow": above the threshold, "fail": the probe raised, "many":
\* several printers answered), for a MultipleChecks its children.
Leaf(kind, outcome) == [kind |-> kind, outcome |-> outcome, checks |-> <<>>]
MultipleChecks(checks) == [kind |-> "MultipleChecks", outcome |-> "-", checks |-> checks]

\* do_check of the leaf classes
do_check(c) ==
    CASE c.kind \in {"PingDefaultGatewayCheck", "PingCheck"} ->
            IF c.outcome = "ok" THEN <<"20.0">>
            ELSE IF c.outcome = "slow" THEN <<"250.0">>
            ELSE <<NO_PING>>
      [] c.kind = "DnsCheck" ->
            IF c.outcome = "ok" THEN <<"True">> ELSE <<"False">>
      [] c.kind = "PingPrinterCheck" ->
            IF c.outcome = "ok" THEN <<"20.0", COMMA, "address">>
            ELSE IF c.outcome = "slow" THEN <<"250.0", COMMA, "address">>
            ELSE IF c.outcome = "many" THEN <<NO_PING, COMMA, "address address">>
            ELSE <<NO_PING, COMMA>>

\* combine_checks(array_of_tuples)
combine_checks(array_of_tuples) ==
    [value |-> Join([i \in DOMAIN array_of_tuples |-> array_of_tuples[i].value]),
     results |-> Flatten([i \in DOMAIN array_of_tuples |-> array_of_tuples[i].results])]

\* check() of each class: the result string and the verdicts
RECURSIVE check(_)
check(c) ==
    CASE c.kind = "MultipleChecks" ->
            combine_checks([i \in DOMAIN c.checks |-> check(c.checks[i])])
      [] c.kind \in {"PingDefaultGatewayCheck", "PingCheck"} ->
            [value |-> do_check(c), results |-> <<do_to_value(do_check(c)[1])>>]
      [] c.kind = "DnsCheck" ->
            [value |-> do_check(c), results |-> <<DnsCheck_do_to_value(do_check(c)[1])>>]
      [] c.kind = "PingPrinterCheck" ->
            [value |-> do_check(c),
             results |-> <<do_to_value(FirstField(do_check(c))), None>>]
      [] c.kind = "SpeedCheck" ->
            IF c.outcome = "ok"
            THEN [value |-> <<"down", COMMA, "up", COMMA, "latency", COMMA, "name">>,
                  results |-> <<True, True, True, None>>]
            ELSE IF c.outcome = "slow"
            THEN [value |-> <<"down", COMMA, "up", COMMA, "latency", COMMA, "name">>,
                  results |-> <<True, False, True, None>>]
            ELSE [value |-> <<"-1", COMMA, "-1", COMMA, "-1", COMMA, "N/A">>,
                  results |-> <<False, False, False, None>>]

\* column_names() of each class
RECURSIVE column_names(_)
column_names(c) ==
    CASE c.kind = "MultipleChecks" ->
            Join([i \in DOMAIN c.checks |-> column_names(c.checks[i])])
      [] c.kind = "PingPrinterCheck" -> <<"ping time", COMMA, "printer address">>
      [] c.kind = "SpeedCheck" ->
            <<"download", COMMA, "upload", COMMA, "latency", COMMA, "server name">>
      [] OTHER -> <<"name">>

\* num_columns() of each class
RECURSIVE num_columns(_)
num_columns(c) ==
    CASE c.kind = "MultipleChecks" ->
            LET RECURSIVE sum(_)
                sum(cs) == IF cs = <<>> THEN 0 ELSE num_columns(cs[1]) + sum(Tail(cs))
            IN  sum(c.checks)
      [] c.kind = "PingPrinterCheck" -> 2
      [] c.kind = "SpeedCheck" -> 4
      [] OTHER -> 1

\* a padding of n commas
skip_extended_commas(n) == [i \in 1..n |-> COMMA]

\* skip_extended = ','.join([""] * n)
skip_extended(n) == Join([i \in 1..n |-> <<>>])

\* the strings NormalAndExtendedChecks returns for the composites normal_checks
\* and extended_checks
normal_check_row(normal_checks, extended_checks) ==
    check(normal_checks).value \o <<COMMA>> \o skip_extended(num_columns(extended_checks))
extended_check_row(normal_checks, extended_checks) ==
    check(normal_checks).value \o <<COMMA>> \o check(extended_checks).value
all_column_names(normal_checks, extended_checks) ==
    column_names(normal_checks) \o <<COMMA>> \o column_names(extended_checks)
all_num_columns(normal_checks, extended_checks) ==
    num_columns(normal_checks) + num_columns(extended_checks)

\* the composites drawn: leaves of one, two and four columns, composites of
\* leaves, and composites of leaves and composites
SomeLeaves == {Leaf("DnsCheck", "ok"), Leaf("PingPrinterCheck", "fail"), Leaf("SpeedCheck", "ok")}
SeqsUpTo(S) == UNION {[1..n -> S] : n \in 0..MaxChildren}
Flat == {MultipleChecks(cs) : cs \in SeqsUpTo(SomeLeaves)}
Nested == {MultipleChecks(cs) : cs \in SeqsUpTo(SomeLeaves \cup Flat)}

\* NormalAndExtendedChecks(normal_checks, extended_checks, ...): one row of each
\* kind, the column names and the number of columns
ApplyRows ==
    /\ log = <<>>
    /\ \E normal_checks \in Nested, extended_checks \in Flat :
        log' = <<Ev("rows",
                    [normal_checks |-> normal_checks, extended_checks |-> extended_checks],
                    [normal_check |-> normal_check_row(normal_checks, extended_checks),
                     extended_check |-> extended_check_row(normal_checks, extended_checks),
                     column_names |-> all_column_names(normal_checks, extended_checks),
                     num_columns |-> all_num_columns(normal_checks, extended_checks)])>>
    /\ UNCHANGED progVars

\* the clock readings and the ages of the last failure the blink state is
\* computed for: around each boundary, inside each regime, and 0 (no failure)
ClockReadings == {StartTime + i : i \in 0..BlinkWindow - 1}
Elapsed == {0, 1, hour - 1, hour, hour + 1, day - 1, day, day + 1, 2 * day,
            week - 1, week, week + 1, 2 * week}

\* Hardware.__get_blink_state(last_failure_time) with time.time() = current_time
ApplyBlink ==
    /\ log = <<>>
    /\ \E current_time \in ClockReadings :
       \E last_failure_time \in {0} \cup {current_time - e : e \in Elapsed} :
        log' = <<Ev("get_blink_state", <<last_failure_time, current_time>>,
                    get_blink_state(last_failure_time, current_time))>>
    /\ UNCHANGED progVars

\* quick_checks of main(), each leaf with the outcome of its probe
quick_checks(gateway, host, dns, printer) ==
    MultipleChecks(<<Leaf("PingDefaultGatewayCheck", gateway), Leaf("PingCheck", host),
                     Leaf("DnsCheck", dns), Leaf("PingPrinterCheck", printer)>>)

\* results = self.normal_checks.check();
\* normal_tests_result = functools.reduce(combine_results, results[1], None)
ApplyNormalChecks ==
    /\ log = <<>>
    /\ \E gateway \in {"ok", "slow", "fail"}, host \in {"ok", "slow", "fail"},
          dns \in {"ok", "fail"}, printer \in {"ok", "slow", "many", "fail"} :
        LET results == check(quick_checks(gateway, host, dns, printer))
        IN  log' = <<Ev("normal_checks", <<gateway, host, dns, printer>>,
                        [results |-> results,
                         normal_tests_result |-> reduce(results.results, None)])>>
    /\ UNCHANGED progVars

PureNext ==
    \/ ApplyCombineResults
    \/ ApplyReduce
    \/ ApplyRows
    \/ ApplyBlink
    \/ ApplyNormalChecks

PureSpec == Init /\ [][PureNext]_vars

\* ---------------------------------- one call of Hardware.get_user_input
\* The main thread calls get_user_input(user_input_timeout); every
\* time.sleep(sleep_time) of the call lasts sleep_time.  The refreshes of the
\* update thread hold the locks for a bounded time and are left out here (Spec
\* has them).
\* The call follows the first batch (an Extended one), here with the Normal
\* verdict Fail and the Extended verdict Pass.
AfterFirstBatch ==
    [normal_test_result |-> False,
     extended_test_result |-> True,
     scheduled_normal_test |-> False,
     scheduled_extended_test |-> False,
     last_normal_test_failure_time |-> StartTime,
     last_extended_test_failure_time |-> 0,
     normal_test_running |-> False,
     extended_test_running |-> False,
     last_normal_test_started_time |-> StartTime,
     last_extended_test_started_time |-> StartTime]

GuiInit ==
    /\ now = StartTime
    /\ ticks = 0
    /\ test_state = AfterFirstBatch
    /\ test_state_lock = "free"
    /\ led_lock = "free"
    /\ leds = [l \in Leds |-> IF l \in {NORMAL_FAIL, EXTENDED_PASS, TEST_RUNNING}
                               THEN True ELSE False]
    /\ pc = [t \in Threads |-> IF t = "main" THEN "get_user_input" ELSE "update"]
    /\ ret = [t \in Threads |-> "-"]
    /\ ul = [t \in Threads |-> UlInit]
    /\ wake = [t \in Threads |-> 0]
    /\ last_normal_test = StartTime
    /\ last_extended_test = StartTime
    /\ user_input = "-"
    /\ timeout_time = 0
    /\ user_input_time = NoTime
    /\ args = NoArgs
    /\ normal_results = <<>>
    /\ normal_tests_result = None
    /\ extended_tests_result = None
    /\ out = <<>>
    /\ log = <<>>
    /\ poll = NoPoll
    /\ entry = NoEntry
    /\ snap = [SnapInit EXCEPT !.held = @ \cup Pairs(AfterFirstBatch)]
    /\ completed = TestType

\* the wall clock advances while the main thread is in time.sleep(sleep_time)
GuiClock ==
    /\ pc["main"] = "gui_sleeping"
    /\ now < wake["main"]
    /\ now < StartTime + MaxWait
    /\ now' = now + 1
    /\ UNCHANGED <<ticks, hwVars, pc, ulVars, wake, guiVars, batchVars, schedVars, log,
                   snap, completed>>

\* the steps of the main thread inside the call
GuiMain == get_user_input \/ update_leds("main")

GuiNext == GuiClock \/ GuiMain

GuiSpec == GuiInit /\ [][GuiNext]_vars

\* the main thread is scheduled and the clock advances
FairGuiSpec == GuiSpec /\ WF_vars(GuiClock) /\ WF_vars(GuiMain)

\* --------------------------------------- the Hardware observer on its own
\* The main thread delivers notifications of any kind and verdict to the
\* Hardware object while the update thread refreshes, and the process ends at
\* any point.
HwInit ==
    /\ now = StartTime
    /\ ticks = 0
    /\ test_state = TestStateInit
    /\ test_state_lock = "free"
    /\ led_lock = "free"
    /\ leds = [l \in Leds |-> False]
    /\ pc = [t \in Threads |-> IF t = "main" THEN "hw_idle" ELSE "update"]
    /\ ret = [t \in Threads |-> "-"]
    /\ ul = [t \in Threads |-> UlInit]
    /\ wake = [t \in Threads |-> 0]
    /\ last_normal_test = 0
    /\ last_extended_test = 0
    /\ user_input = "-"
    /\ timeout_time = 0
    /\ user_input_time = NoTime
    /\ args = NoArgs
    /\ normal_results = <<>>
    /\ normal_tests_result = None
    /\ extended_tests_result = None
    /\ out = <<>>
    /\ log = <<>>
    /\ poll = NoPoll
    /\ entry = NoEntry
    /\ snap = SnapInit
    /\ completed = {}

\* the number of notifications delivered so far
Calls == Cardinality({i \in 1..Len(log) : log[i].ev \in {"started", "completed"}})

\* observer.notify_test_started(k)
HwStarted ==
    /\ pc["main"] = "hw_idle"
    /\ Calls < MaxCalls
    /\ \E k \in TestType : CallStarted(k, "hw_idle")
    /\ UNCHANGED <<clockVars, hwVars, ul, wake, guiVars, normal_results,
                   normal_tests_result, extended_tests_result, schedVars, snap, completed>>

\* observer.notify_test_completed(k, r), r being any verdict a fold can give
HwCompleted ==
    /\ pc["main"] = "hw_idle"
    /\ Calls < MaxCalls
    /\ \E k \in TestType, r \in Verdicts : CallCompleted(k, r, "hw_idle")
    /\ UNCHANGED <<clockVars, hwVars, ul, wake, guiVars, normal_results,
                   normal_tests_result, extended_tests_result, schedVars, snap>>

\* the wall clock advances between two notifications
HwTick ==
    /\ pc["main"] = "hw_idle"
    /\ ticks < MaxTicks
    /\ now' = now + 1
    /\ ticks' = ticks + 1
    /\ UNCHANGED <<hwVars, pc, ulVars, wake, guiVars, batchVars, schedVars, log, snap, completed>>

\* GPIO.output(pin, None): RPi.GPIO is not part of the repository; a binding
\* that takes the value is UlPassWrite, one that rejects it raises here, the
\* finally clause releases led_lock and the exception leaves __update_leds
GpioRaise(t, k) ==
    /\ pc[t] = Lbl(k, "_pass_write")
    /\ ul[t].val = None
    /\ led_lock' = "free"
    /\ Goto(t, "raised")
    /\ ret' = [ret EXCEPT ![t] = "-"]
    /\ ul' = [ul EXCEPT ![t] = UlInit]
    /\ snap' = [snap EXCEPT !.torn[t] = FALSE]
    /\ UNCHANGED <<clockVars, test_state, test_state_lock, leds, wake, guiVars,
                   batchVars, schedVars, log, completed>>

\* the process ends (signal, unhandled exception in the main thread, exit of
\* the interpreter) and Hardware.__del__ is not run: the daemon thread holds a
\* reference to the object, and nothing else turns the LEDs off
HwKilled ==
    /\ pc["main"] # "terminated"
    /\ pc' = [t \in Threads |-> "terminated"]
    /\ UNCHANGED <<clockVars, hwVars, ulVars, wake, guiVars, batchVars, schedVars, log,
                   snap, completed>>

\* the process ends and Hardware.__del__ is run
HwFinalized ==
    /\ pc["main"] # "terminated"
    /\ pc' = [t \in Threads |-> "terminated"]
    /\ leds' = [l \in Leds |-> False]
    /\ UNCHANGED <<clockVars, test_state, test_state_lock, led_lock, ulVars, wake,
                   guiVars, batchVars, schedVars, log, snap, completed>>

HwMain ==
    \/ HwStarted \/ HwCompleted
    \/ notify_test_started \/ notify_test_completed \/ update_leds("main")

HwNext ==
    \/ HwTick
    \/ HwMain
    \/ update \/ update_leds("update")
    \/ \E t \in Threads, k \in TestType : GpioRaise(t, k)
    \/ HwKilled
    \/ HwFinalized

HwSpec == HwInit /\ [][HwNext]_vars

\* ================================================================ claims
\* C1: once a press has been observed at t0, NormalTest is emitted only at a
\* poll where the time elapsed since t0 is below the hold threshold, and no
\* poll at which the elapsed time has reached the threshold emits anything
\* but ExtendedTest.
C1_HoldDurationDecides ==
    LET observed == user_input_time # NoTime /\ poll.time # NoTime
        elapsed == poll.time - user_input_time
    IN  /\ (pc["main"] = "gui_return" /\ user_input = NORMAL_TEST)
                => (observed /\ elapsed < button_push_time_for_extended_test)
        /\ (observed /\ elapsed >= button_push_time_for_extended_test)
                => /\ pc["main"] # "gui_sleeping"
                   /\ pc["main"] = "gui_return" => user_input = EXTENDED_TEST

\* C2: when get_user_input returns NormalTest, scheduled_normal_test is true
\* and was set, and followed by an LED refresh, before the return; when it
\* returns ExtendedTest, both scheduled flags are true and each was set, and
\* followed by an LED refresh, before the return.
C2_ScheduledBeforeReturn ==
    pc["main"] = "gui_return" =>
        /\ user_input = NORMAL_TEST =>
            /\ Truthy(test_state.scheduled_normal_test)
            /\ log = <<Ev("scheduled", NORMAL, "-"), REFRESH>>
        /\ user_input = EXTENDED_TEST =>
            /\ Truthy(test_state.scheduled_normal_test)
            /\ Truthy(test_state.scheduled_extended_test)
            /\ log = <<Ev("scheduled", NORMAL, "-"), REFRESH,
                       Ev("scheduled", EXTENDED, "-"), REFRESH>>

\* get_user_input is about to return EXTENDED_TEST
C2_ExtendedReturned == pc["main"] = "gui_return" /\ user_input = EXTENDED_TEST

\* C3: get_user_input returns NoInput only if no poll of the call saw the
\* button asserted and the timeout has elapsed; the shared test state and
\* both scheduling timestamps are then the same as at the entry of the call,
\* at the return and after main() has handled the returned value.
C3_NoInputUnchanged ==
    LET same == /\ test_state = entry.test_state
                /\ last_normal_test = entry.last_normal_test
                /\ last_extended_test = entry.last_extended_test
    IN  /\ (pc["main"] = "gui_return" /\ user_input = NO_INPUT)
                => /\ poll.seen = False
                   /\ user_input_time = NoTime
                   /\ poll.time >= timeout_time
                   /\ same
        /\ (pc["main"] = "loop" /\ user_input = NO_INPUT) => same

\* main() has handled a NO_INPUT
C3_NoInputHandled == pc["main"] = "loop" /\ user_input = NO_INPUT

\* C4: the test result and the scheduled flag that one refresh combines into
\* a Pass or Fail output are values the shared state held together at one
\* instant (a consequence of computing the outputs from a single snapshot).
C4_ConsistentSnapshot == \A t \in Threads : ~snap.torn[t]

\* C5: until the first completion notification for a test type, its scheduled
\* flag is true and its Pass and Fail LED outputs are off.
C5_ScheduledSuppression ==
    \A k \in TestType :
        k \notin completed =>
            /\ Truthy(test_state[ScheduledField(k)])
            /\ leds[PassLed(k)] = False
            /\ leds[FailLed(k)] = False

\* the update thread has finished a refresh while the first batch is running
\* and no completion has been notified
C5_RefreshedBeforeCompletion ==
    /\ completed = {}
    /\ Truthy(test_state.extended_test_running)
    /\ pc["update"] = "update_sleep"

\* C6: extended_check evaluates the Normal composite, notifies started(Normal)
\* then started(Extended), evaluates the Extended composite, then notifies
\* completed(Normal, fold of the Normal verdicts) and completed(Extended, fold
\* of the Extended verdicts), in this order; the hardware observer refreshes
\* the LEDs in each notification.
C6_ExtendedCheckOrder ==
    LET Overall(vs) == IF \E i \in DOMAIN vs : vs[i] = False THEN False
                       ELSE IF \E i \in DOMAIN vs : vs[i] = True THEN True
                       ELSE None
    IN  pc["main"] = "print_extended_row" =>
            /\ Len(log) = 10
            /\ log[1].ev = "check" /\ log[1].type = NORMAL
            /\ log[2] = Ev("started", NORMAL, "-")
            /\ log[3] = REFRESH
            /\ log[4] = Ev("started", EXTENDED, "-")
            /\ log[5] = REFRESH
            /\ log[6].ev = "check" /\ log[6].type = EXTENDED
            /\ log[7] = Ev("completed", NORMAL, Overall(log[1].result))
            /\ log[8] = REFRESH
            /\ log[9] = Ev("completed", EXTENDED, Overall(log[6].result))
            /\ log[10] = REFRESH

\* extended_check has returned after a batch whose two verdicts differ
C6_ExtendedCheckDone ==
    /\ pc["main"] = "print_extended_row"
    /\ Len(log) = 10
    /\ log[7].result # log[9].result

\* C7: normal_check notifies started(Normal), then evaluates the Normal
\* composite, then notifies completed(Normal, fold of the Normal verdicts);
\* nothing else happens: no Extended notification and no evaluation of the
\* Extended composite.
C7_NormalCheckOrder ==
    LET Overall(vs) == IF \E i \in DOMAIN vs : vs[i] = False THEN False
                       ELSE IF \E i \in DOMAIN vs : vs[i] = True THEN True
                       ELSE None
    IN  pc["main"] = "print_normal_row" =>
            /\ Len(log) = 5
            /\ log[1] = Ev("started", NORMAL, "-")
            /\ log[2] = REFRESH
            /\ log[3].ev = "check" /\ log[3].type = NORMAL
            /\ log[4] = Ev("completed", NORMAL, Overall(log[3].result))
            /\ log[5] = REFRESH

\* normal_check has returned after a failing batch
C7_NormalCheckDone ==
    /\ pc["main"] = "print_normal_row"
    /\ Len(log) = 5
    /\ log[4].result = False

\* C8: the step that leaves the top of the loop runs extended_check and sets
\* both timestamps to now if the extended interval has elapsed, otherwise
\* runs normal_check and sets only last_normal_test to now if the normal
\* interval has elapsed, otherwise runs no batch and changes no timestamp; a
\* batch starts at no other step, and after its row the cycle goes on to the
\* user input.
C8_CyclePrecedence ==
    [][ /\ (pc["main"] = "loop" /\ pc'["main"] # "loop") =>
              IF now >= last_extended_test + extended_test_interval
              THEN /\ pc'["main"] = "extended_check"
                   /\ last_normal_test' = now
                   /\ last_extended_test' = now
              ELSE IF now >= last_normal_test + normal_test_interval
              THEN /\ pc'["main"] = "normal_check"
                   /\ last_normal_test' = now
                   /\ last_extended_test' = last_extended_test
              ELSE /\ pc'["main"] = "get_user_input"
                   /\ last_normal_test' = last_normal_test
                   /\ last_extended_test' = last_extended_test
        /\ (pc'["main"] \in {"extended_check", "normal_check"} /\ pc'["main"] # pc["main"])
              => pc["main"] = "loop"
        /\ Len(out') > Len(out) /\ out'[Len(out')] # HEADER => pc'["main"] = "get_user_input"
      ]_vars

\* a cycle has chosen normal_check while the extended test was run earlier
C8_NormalChosen ==
    /\ pc["main"] = "normal_check"
    /\ last_normal_test = now
    /\ \E i \in 1..Len(out) : out[i] = EXTENDED_ROW

\* C9: the cycle that follows a get_user_input returning ExtendedTest calls
\* extended_check, and the cycle that follows one returning NormalTest runs
\* a batch (normal_check or extended_check, both of which evaluate the Normal
\* composite).
C9_ButtonRunsNextCycle ==
    [][ (pc["main"] = "loop" /\ pc'["main"] # "loop") =>
            /\ user_input = EXTENDED_TEST => pc'["main"] = "extended_check"
            /\ user_input = NORMAL_TEST => pc'["main"] \in {"normal_check", "extended_check"}
      ]_vars

\* the cycle after an ExtendedTest has started extended_check without any
\* time having passed since the previous extended batch
C9_ExtendedAfterButton ==
    /\ pc["main"] = "extended_check"
    /\ user_input = EXTENDED_TEST
    /\ now < StartTime + extended_test_interval

C11_RowArity ==
    \A i \in 1..Len(log) :
        log[i].ev = "rows" =>
            LET r == log[i].result
                n == log[i].type.normal_checks
                e == log[i].type.extended_checks
            IN  /\ Fields(r.normal_check) = Fields(r.extended_check)
                /\ Fields(r.normal_check) = Fields(r.column_names)
                /\ Fields(r.normal_check) = r.num_columns
                /\ r.num_columns = num_columns(n) + num_columns(e)
                /\ Fields(r.normal_check) - Fields(check(n).value) = num_columns(e)

\* every MultipleChecks of the check c has a child
RECURSIVE NoEmptyComposite(_)
NoEmptyComposite(c) ==
    c.kind = "MultipleChecks" =>
        /\ c.checks # <<>>
        /\ \A i \in DOMAIN c.checks : NoEmptyComposite(c.checks[i])

\* C11 as the code has it: the row arity holds for composites in which every
\* MultipleChecks, at any nesting, has at least one child.
C11_RowArityNonEmpty ==
    \A i \in 1..Len(log) :
        log[i].ev = "rows" =>
            LET r == log[i].result
                n == log[i].type.normal_checks
                e == log[i].type.extended_checks
            IN  (NoEmptyComposite(n) /\ NoEmptyComposite(e)) =>
                    /\ Fields(r.normal_check) = Fields(r.extended_check)
                    /\ Fields(r.normal_check) = Fields(r.column_names)
                    /\ Fields(r.normal_check) = r.num_columns
                    /\ r.num_columns = num_columns(n) + num_columns(e)
                    /\ Fields(r.normal_check) - Fields(check(n).value) = num_columns(e)
                    /\ \A j \in Len(check(n).value) + 1..Len(r.normal_check) :
                            r.normal_check[j] = COMMA

\* rows have been built for a nested Normal composite and a two-leaf Extended
\* composite, none of them empty
C11_NestedRows ==
    /\ log # <<>>
    /\ log[1].ev = "rows"
    /\ NoEmptyComposite(log[1].type.normal_checks)
    /\ NoEmptyComposite(log[1].type.extended_checks)
    /\ \E j \in DOMAIN log[1].type.normal_checks.checks :
            log[1].type.normal_checks.checks[j].kind = "MultipleChecks"
    /\ Len(log[1].type.extended_checks.checks) = 2

\* C12: combine_results is commutative, None is its identity on both sides,
\* and on two verdicts other than None it returns True exactly when both are
\* True (and False otherwise).
C12_CombineCommutativeIdentity ==
    \A i \in 1..Len(log) :
        log[i].ev = "combine_results" =>
            LET a == log[i].type[1]
                b == log[i].type[2]
                r == log[i].result
            IN  /\ r = combine_results(b, a)
                /\ a = None => r = b
                /\ b = None => r = a
                /\ (a # None /\ b # None) =>
                        r = IF a = True /\ b = True THEN True ELSE False

\* combine_results(False, None) has been applied
C12_IdentityApplied ==
    /\ log # <<>>
    /\ log[1].ev = "combine_results"
    /\ log[1].type = <<False, None>>

\* C13: the reduction is the left fold of combine_results from None; for
\* every verdict sequence it is None if every verdict is None (or there is
\* none), False if some verdict is False, True otherwise, and it is the same
\* for every order of the verdicts.
C13_FoldOverall ==
    \A i \in 1..Len(log) :
        log[i].ev = "reduce" =>
            LET vs == log[i].type
                r == log[i].result
                n == Len(vs)
                fold[j \in 0..n] ==
                    IF j = 0 THEN None ELSE combine_results(fold[j - 1], vs[j])
            IN  /\ r = fold[n]
                /\ r = IF \E j \in 1..n : vs[j] = False THEN False
                       ELSE IF \E j \in 1..n : vs[j] = True THEN True
                       ELSE None
                /\ \A p \in Permutations(1..n) :
                        reduce([j \in 1..n |-> vs[p[j]]], None) = r

\* a sequence that mixes None, True and False has been reduced
C13_MixedReduced ==
    /\ log # <<>>
    /\ log[1].ev = "reduce"
    /\ log[1].type = <<None, True, False, None>>

\* C14: the blink state is that of the regime selected by elapsed = now -
\* lastFailureTime with strict upper bounds: fast toggle below 1 hour, slow
\* toggle from 1 hour to below 1 day, long pause from 1 day to below 1 week,
\* steady on from 1 week; lastFailureTime = 0 gives steady on.
C14_StrictRegimes ==
    \A i \in 1..Len(log) :
        log[i].ev = "get_blink_state" =>
            LET current_time == log[i].type[2]
                elapsed == current_time - log[i].type[1]
            IN  /\ log[i].result =
                        IF elapsed < hour THEN FastToggle(current_time)
                        ELSE IF elapsed < day THEN SlowToggle(current_time)
                        ELSE IF elapsed < week THEN LongPause(current_time)
                        ELSE True
                /\ log[i].type[1] = 0 => log[i].result = True

\* C14 as the code has it: the upper bounds are inclusive: fast toggle up to
\* and including 1 hour, slow toggle above 1 hour up to and including 1 day,
\* long pause above 1 day up to and including 1 week, steady on above 1 week;
\* lastFailureTime = 0 gives steady on.
C14_InclusiveRegimes ==
    \A i \in 1..Len(log) :
        log[i].ev = "get_blink_state" =>
            LET current_time == log[i].type[2]
                elapsed == current_time - log[i].type[1]
            IN  /\ log[i].result =
                        IF elapsed <= hour THEN FastToggle(current_time)
                        ELSE IF elapsed <= day THEN SlowToggle(current_time)
                        ELSE IF elapsed <= week THEN LongPause(current_time)
                        ELSE True
                /\ log[i].type[1] = 0 => log[i].result = True

\* the blink state has been computed exactly 1 hour after the last failure, at
\* a time where the fast and the slow toggle differ
C14_ExactlyOneHour ==
    /\ log # <<>>
    /\ log[1].ev = "get_blink_state"
    /\ log[1].type[2] - log[1].type[1] = hour
    /\ FastToggle(log[1].type[2]) # SlowToggle(log[1].type[2])
    /\ log[1].result = FastToggle(log[1].type[2])

\* C16: when the probe of a leaf of the Normal composite fails (gateway ping,
\* host ping, DNS resolution, printer discovery), the verdict of that leaf is
\* Fail and the overall Normal verdict is Fail.
C16_ProbeFailureFails ==
    \A i \in 1..Len(log) :
        log[i].ev = "normal_checks" =>
            \A leaf \in 1..4 :
                log[i].type[leaf] = "fail" =>
                    /\ log[i].result.results.results[leaf] = False
                    /\ log[i].result.normal_tests_result = False

\* C17: the pin writes of a refresh are one critical section: at most one
\* thread at a time is between led_lock.acquire() and led_lock.release(), and
\* the thread that is there holds led_lock, so every pin write is made by the
\* holder while the other thread is outside the write sequence.
C17_OneWriterAtATime ==
    /\ ~(pc["main"] \in OutputSection /\ pc["update"] \in OutputSection)
    /\ \A t \in Threads : pc[t] \in OutputSection => led_lock = t

\* the main thread is in the middle of its pin writes while the update thread
\* waits to begin its own
C17_UpdateWaitsForMain ==
    /\ pc["main"] = Lbl(EXTENDED, "_pass_write")
    /\ pc["update"] = "ul_acquire_led"

\* C19: get_user_input terminates: the call goes on after a poll only while,
\* with no press observed, the poll is before the timeout and, with a press
\* observed at t0, the poll is before t0 + hold threshold; NoInput is returned
\* at a poll at or after the timeout; with sleeps of one poll interval the call
\* has not lasted longer than timeout + hold threshold + one poll interval
\* while it runs; and it returns.
C19_Returns ==
    /\ [](pc["main"] = "gui_sleeping" =>
            IF user_input_time = NoTime
            THEN poll.time < timeout_time
            ELSE poll.time < user_input_time + button_push_time_for_extended_test)
    /\ []((pc["main"] = "gui_return" /\ user_input = NO_INPUT) => poll.time >= timeout_time)
    /\ [](pc["main"] \notin {"get_user_input", "gui_return"} =>
            now - (timeout_time - user_input_timeout)
                <= user_input_timeout + button_push_time_for_extended_test + sleep_time)
    /\ <>(pc["main"] = "gui_return")

\* the call has returned EXTENDED_TEST for a press first observed at the last
\* poll before the timeout
C19_LatePressHeld ==
    /\ pc["main"] = "gui_return"
    /\ user_input = EXTENDED_TEST
    /\ user_input_time = timeout_time - sleep_time
    /\ now = user_input_time + button_push_time_for_extended_test

\* C15: once notify_test_completed(k, Fail) has returned, and until the next
\* completion for k or a button press sets the scheduled flag of k again, the
\* Fail LED of k is on and its Pass LED is off after every write of every
\* refresh, of either thread, in whichever blink state.
C15_FailSolid ==
    \A k \in TestType :
        (/\ test_state[ResultField(k)] = False
         /\ test_state[ScheduledField(k)] = False
         /\ ~InCompletion(k))
            => (leds[FailLed(k)] = True /\ leds[PassLed(k)] = False)

\* after a failed Normal batch the update thread has rewritten the Normal LEDs
\* in a refresh of its own whose blink state is off
C15_RefreshedAfterFail ==
    /\ test_state.normal_test_result = False
    /\ test_state.scheduled_normal_test = False
    /\ pc["main"] = "gui_sleeping"
    /\ pc["update"] = Lbl(EXTENDED, "_pass_result")
    /\ ul["update"].normal_blink_state = False
    /\ leds[NORMAL_FAIL] = True

\* C18: once the process has terminated, on whatever exit path, all five LED
\* outputs are off.
C18_OffAfterExit ==
    (\A t \in Threads : pc[t] = "terminated") => \A l \in Leds : leds[l] = False

\* C20: an Unknown overall verdict is not treated as a failure: the assignment
\* of the last failure time is reached for a Fail verdict only, and once the
\* completion notification with an Unknown verdict has returned the Fail LED of
\* that kind is not lit.
C20_UnknownNotFailure ==
    /\ pc["main"] = "ntc_failure_time" => args.result = False
    /\ \A k \in TestType :
        (test_state[ResultField(k)] = None /\ pc["main"] = "hw_idle")
            => leds[FailLed(k)] # True

\* C21: no thread holds test_state_lock and led_lock at the same time; a lock
\* is held only between its acquire and its release, so it is released on
\* every path; no lock is held while a composite check runs or a thread
\* sleeps; and the holder of a lock is never itself waiting for a lock and can
\* always take its next step, so a refresh completes and a notification
\* returns.
C21_NoDeadlock ==
    \A t \in Threads :
        /\ ~(test_state_lock = t /\ led_lock = t)
        /\ test_state_lock = t <=> pc[t] \in StateSection
        /\ led_lock = t <=> pc[t] \in OutputSection
        /\ pc[t] \in WaitingLabels => (test_state_lock # t /\ led_lock # t)
        /\ (test_state_lock = t \/ led_lock = t) =>
                /\ pc[t] \notin AcquireLabels
                /\ IF t = "main" THEN ENABLED MainThread ELSE ENABLED UpdateThread

\* the main thread waits for led_lock, which the update thread holds, inside
\* notify_test_completed
C21_MainWaitsForUpdate ==
    /\ pc["main"] = "ul_acquire_led"
    /\ ret["main"] = "print_normal_row"
    /\ led_lock = "update"
    /\ test_state_lock = "free"

\* C22: the Pass LED and the Fail LED of the same test type are never both on.
C22_NeverBothOn ==
    \A k \in TestType : ~(leds[PassLed(k)] = True /\ leds[FailLed(k)] = True)

\* C22 between refreshes: while no thread is inside the pin writes, the Pass
\* LED and the Fail LED of the same test type are not both on.
C22_NeverBothOnBetweenRefreshes ==
    led_lock = "free" => C22_NeverBothOn

====
